---- MODULE Spec2Model ----
(***************************************************************************)
(* Model of main.py: PostsDataFetcher, RedisDataHandler,                   *)
(* PostsDataProcessor and the module-level driver.                         *)
(*                                                                         *)
(* Text (an HTTP body, a Redis string, a printed line) is a sequence of    *)
(* one-character strings.  JSON values are tagged records.                 *)
(***************************************************************************)
EXTENDS Integers, Sequences, FiniteSets, TLC

(***************************************************************************)
(* Python values that json.loads produces and json.dumps accepts.         *)
(* None is JNull: json.loads("null") and a bare `return None` are the      *)
(* same Python object.                                                     *)
(***************************************************************************)
JNull == [t |-> "null"]
JBool(b) == [t |-> "bool", b |-> b]
JInt(n) == [t |-> "int", n |-> n]
JStr(s) == [t |-> "str", s |-> s]
JArr(a) == [t |-> "arr", a |-> a]
JObj(o) == [t |-> "obj", o |-> o]
Pair(k, v) == [k |-> k, v |-> v]

Digits == <<"0", "1", "2", "3", "4", "5", "6", "7", "8", "9">>
DigitSet == {Digits[i] : i \in 1..10}
DigitVal(c) == (CHOOSE i \in 1..10 : Digits[i] = c) - 1

\* str(int) / int.__repr__, used by json.dumps and by the f-strings
RECURSIVE NatStr(_)
NatStr(n) == IF n < 10 THEN <<Digits[n + 1]>>
             ELSE NatStr(n \div 10) \o <<Digits[(n % 10) + 1]>>
IntStr(n) == IF n < 0 THEN <<"-">> \o NatStr(0 - n) ELSE NatStr(n)

(***************************************************************************)
(* json.dumps(json_data) with the default separators (", " and ": ") and   *)
(* ensure_ascii escaping of the characters of the modelled alphabet.       *)
(***************************************************************************)
EscapeChar(c) ==
    CASE c = "\"" -> <<"\\", "\"">>
      [] c = "\\" -> <<"\\", "\\">>
      [] c = "\n" -> <<"\\", "n">>
      [] c = "\t" -> <<"\\", "t">>
      [] c = "\r" -> <<"\\", "r">>
      [] c = "\f" -> <<"\\", "f">>
      [] OTHER -> <<c>>

RECURSIVE EscapeChars(_)
EscapeChars(s) == IF s = <<>> THEN <<>>
                  ELSE EscapeChar(Head(s)) \o EscapeChars(Tail(s))

encode_basestring(s) == <<"\"">> \o EscapeChars(s) \o <<"\"">>

RECURSIVE json_dumps(_), DumpItems(_), DumpMembers(_)
DumpItems(a) ==
    IF a = <<>> THEN <<>>
    ELSE json_dumps(Head(a))
         \o (IF Tail(a) = <<>> THEN <<>> ELSE <<",", " ">> \o DumpItems(Tail(a)))
DumpMembers(o) ==
    IF o = <<>> THEN <<>>
    ELSE encode_basestring(Head(o).k) \o <<":", " ">> \o json_dumps(Head(o).v)
         \o (IF Tail(o) = <<>> THEN <<>> ELSE <<",", " ">> \o DumpMembers(Tail(o)))
json_dumps(v) ==
    CASE v.t = "null" -> <<"n", "u", "l", "l">>
      [] v.t = "bool" -> IF v.b THEN <<"t", "r", "u", "e">>
                         ELSE <<"f", "a", "l", "s", "e">>
      [] v.t = "int" -> IntStr(v.n)
      [] v.t = "str" -> encode_basestring(v.s)
      [] v.t = "arr" -> <<"[">> \o DumpItems(v.a) \o <<"]">>
      [] v.t = "obj" -> <<"{">> \o DumpMembers(v.o) \o <<"}">>

(***************************************************************************)
(* json.loads(text): the scanner of json.decoder / json.scanner.  A parse  *)
(* step returns [ok, v, i]: success, the value, the index after it.        *)
(* Fractions, exponents, \u and \b escapes, NaN and Infinity are outside   *)
(* the alphabet of the modelled texts.                                     *)
(***************************************************************************)
Fail == [ok |-> FALSE, v |-> JNull, i |-> 0]
Ok(v, i) == [ok |-> TRUE, v |-> v, i |-> i]
At(s, i) == IF i >= 1 /\ i <= Len(s) THEN s[i] ELSE "EOF"
WS == {" ", "\n", "\t", "\r"}

RECURSIVE SkipWs(_, _)
SkipWs(s, i) == IF At(s, i) \in WS THEN SkipWs(s, i + 1) ELSE i

StartsWith(s, i, lit) ==
    /\ i + Len(lit) - 1 <= Len(s)
    /\ SubSeq(s, i, i + Len(lit) - 1) = lit

Unescape(c) ==
    CASE c = "\"" -> "\""
      [] c = "\\" -> "\\"
      [] c = "/" -> "/"
      [] c = "n" -> "\n"
      [] c = "t" -> "\t"
      [] c = "r" -> "\r"
      [] c = "f" -> "\f"
      [] OTHER -> "EOF"

\* py_scanstring(s, i) in strict mode; i is the index after the opening quote
RECURSIVE scanstring(_, _, _)
scanstring(s, i, acc) ==
    LET c == At(s, i) IN
    CASE c = "EOF" -> Fail
      [] c = "\"" -> Ok(JStr(acc), i + 1)
      [] c = "\\" -> IF Unescape(At(s, i + 1)) = "EOF" THEN Fail
                     ELSE scanstring(s, i + 2, Append(acc, Unescape(At(s, i + 1))))
      [] c \in {"\n", "\t", "\r", "\f"} -> Fail
      [] OTHER -> scanstring(s, i + 1, Append(acc, c))

\* NUMBER_RE integer part: -?(0|[1-9][0-9]*)
RECURSIVE ScanDigits(_, _, _)
ScanDigits(s, i, n) ==
    IF At(s, i) \in DigitSet THEN ScanDigits(s, i + 1, 10 * n + DigitVal(At(s, i)))
    ELSE Ok(JInt(n), i)
ScanNat(s, i) ==
    CASE At(s, i) = "0" -> Ok(JInt(0), i + 1)
      [] At(s, i) \in DigitSet \ {"0"} -> ScanDigits(s, i, 0)
      [] OTHER -> Fail
ScanNumber(s, i) ==
    IF At(s, i) = "-"
    THEN LET r == ScanNat(s, i + 1) IN
         IF r.ok THEN Ok(JInt(0 - r.v.n), r.i) ELSE Fail
    ELSE ScanNat(s, i)

\* dict(pairs): a repeated key keeps its first position and takes the last value
SetItem(o, k, v) ==
    IF \E j \in 1..Len(o) : o[j].k = k
    THEN [j \in 1..Len(o) |-> IF o[j].k = k THEN Pair(k, v) ELSE o[j]]
    ELSE Append(o, Pair(k, v))

RECURSIVE scan_once(_, _), JSONArray(_, _, _), JSONObject(_, _, _)
\* the loop of JSONArray: i is at the start of the next element
JSONArray(s, i, acc) ==
    LET r == scan_once(s, i) IN
    IF ~r.ok THEN Fail
    ELSE LET j == SkipWs(s, r.i) IN
         CASE At(s, j) = "]" -> Ok(JArr(Append(acc, r.v)), j + 1)
           [] At(s, j) = "," -> JSONArray(s, SkipWs(s, j + 1), Append(acc, r.v))
           [] OTHER -> Fail
\* the loop of JSONObject: i is at the opening quote of the next key
JSONObject(s, i, acc) ==
    IF At(s, i) # "\"" THEN Fail
    ELSE LET k == scanstring(s, i + 1, <<>>) IN
         IF ~k.ok THEN Fail
         ELSE LET c == SkipWs(s, k.i) IN
              IF At(s, c) # ":" THEN Fail
              ELSE LET r == scan_once(s, SkipWs(s, c + 1)) IN
                   IF ~r.ok THEN Fail
                   ELSE LET j == SkipWs(s, r.i)
                            o == SetItem(acc, k.v.s, r.v) IN
                        CASE At(s, j) = "}" -> Ok(JObj(o), j + 1)
                          [] At(s, j) = "," -> JSONObject(s, SkipWs(s, j + 1), o)
                          [] OTHER -> Fail
scan_once(s, i) ==
    LET c == At(s, i) IN
    CASE c = "\"" -> scanstring(s, i + 1, <<>>)
      [] c = "{" -> LET j == SkipWs(s, i + 1) IN
                    IF At(s, j) = "}" THEN Ok(JObj(<<>>), j + 1)
                    ELSE JSONObject(s, j, <<>>)
      [] c = "[" -> LET j == SkipWs(s, i + 1) IN
                    IF At(s, j) = "]" THEN Ok(JArr(<<>>), j + 1)
                    ELSE JSONArray(s, j, <<>>)
      [] c = "n" /\ StartsWith(s, i, <<"n", "u", "l", "l">>) -> Ok(JNull, i + 4)
      [] c = "t" /\ StartsWith(s, i, <<"t", "r", "u", "e">>) -> Ok(JBool(TRUE), i + 4)
      [] c = "f" /\ StartsWith(s, i, <<"f", "a", "l", "s", "e">>) -> Ok(JBool(FALSE), i + 5)
      [] OTHER -> ScanNumber(s, i)

\* JSONDecoder.decode: leading whitespace, one value, trailing whitespace, end
json_loads(s) ==
    LET r == scan_once(s, SkipWs(s, 1)) IN
    IF r.ok /\ SkipWs(s, r.i) = Len(s) + 1
    THEN [raised |-> FALSE, ret |-> r.v]
    ELSE [raised |-> TRUE, ret |-> JNull]

(***************************************************************************)
(* The Redis server as the client with decode_responses=True sees it: a    *)
(* key is absent (GET returns None) or holds a text.                       *)
(***************************************************************************)
REDIS_KEY == <<"j", "s", "o", "n", "p", "l", "a", "c", "e", "h", "o", "l", "d", "e", "r", ":", "p", "o", "s", "t", "s">>
OTHER_KEY == <<"k">>
Keys == {REDIS_KEY, OTHER_KEY}
Absent == [present |-> FALSE, text |-> <<>>]
Stored(text) == [present |-> TRUE, text |-> text]

db_set(dbv, key, text) == [dbv EXCEPT ![key] = Stored(text)]
db_get(dbv, key) == dbv[key]
\* `if serialized_data:` -- None and the empty str are falsy
Truthy(serialized_data) == serialized_data.present /\ serialized_data.text # <<>>

\* insert_data that keeps a value already stored (SET ... NX)
insert_data_nx(dbv, key, json_data) ==
    IF db_get(dbv, key).present THEN dbv
    ELSE db_set(dbv, key, json_dumps(json_data))

\* RedisDataHandler.insert_data: the store after the call
insert_data(dbv, key, json_data) ==
    LET serialized_data == json_dumps(json_data) IN
    db_set(dbv, key, serialized_data)

\* RedisDataHandler.retrieve_data: [raised, ret] of the call
retrieve_data(dbv, key) ==
    LET serialized_data == db_get(dbv, key) IN
    IF Truthy(serialized_data) THEN json_loads(serialized_data.text)
    ELSE [raised |-> FALSE, ret |-> JNull]

(***************************************************************************)
(* Python operations the Processor applies to the held value.              *)
(***************************************************************************)
K_userId == <<"u", "s", "e", "r", "I", "d">>
K_id == <<"i", "d">>
K_title == <<"t", "i", "t", "l", "e">>
K_body == <<"b", "o", "d", "y">>
MkPost(u, i, title, body) ==
    JObj(<<Pair(K_userId, JInt(u)), Pair(K_id, JInt(i)),
           Pair(K_title, JStr(title)), Pair(K_body, JStr(body))>>)

\* `for post in value`: a list yields its items, a dict its keys, a str its
\* characters; anything else raises TypeError
Iter(v) ==
    CASE v.t = "arr" -> [raised |-> FALSE, items |-> v.a]
      [] v.t = "obj" -> [raised |-> FALSE, items |-> [j \in 1..Len(v.o) |-> JStr(v.o[j].k)]]
      [] v.t = "str" -> [raised |-> FALSE, items |-> [j \in 1..Len(v.s) |-> JStr(<<v.s[j]>>)]]
      [] OTHER -> [raised |-> TRUE, items |-> <<>>]

\* post[key] with a str key: KeyError / TypeError unless post is a dict holding it
GetItem(post, key) ==
    IF post.t = "obj" /\ \E j \in 1..Len(post.o) : post.o[j].k = key
    THEN [raised |-> FALSE,
          ret |-> post.o[CHOOSE j \in 1..Len(post.o) : post.o[j].k = key].v]
    ELSE [raised |-> TRUE, ret |-> JNull]

\* len(value)
PyLen(v) ==
    CASE v.t = "str" -> [raised |-> FALSE, n |-> Len(v.s)]
      [] v.t = "arr" -> [raised |-> FALSE, n |-> Len(v.a)]
      [] v.t = "obj" -> [raised |-> FALSE, n |-> Len(v.o)]
      [] OTHER -> [raised |-> TRUE, n |-> 0]

\* a == b on scalars: bool is an int (True == 1, False == 0)
IsNum(v) == v.t \in {"int", "bool"}
NumVal(v) == IF v.t = "int" THEN v.n ELSE IF v.b THEN 1 ELSE 0
PyEq(a, b) == IF IsNum(a) /\ IsNum(b) THEN NumVal(a) = NumVal(b) ELSE a = b
Hashable(v) == v.t \notin {"arr", "obj"}

\* str(value) as an f-string renders a scalar
PyStr(v) ==
    CASE v.t = "int" -> IntStr(v.n)
      [] v.t = "str" -> v.s
      [] v.t = "bool" -> IF v.b THEN <<"T", "r", "u", "e">> ELSE <<"F", "a", "l", "s", "e">>
      [] v.t = "null" -> <<"N", "o", "n", "e">>

(***************************************************************************)
(* PostsDataProcessor                                                      *)
(***************************************************************************)
\* [len(post['body']) for post in self.data]
RECURSIVE BodyLengths(_, _)
BodyLengths(items, acc) ==
    IF items = <<>> THEN [raised |-> FALSE, lens |-> acc]
    ELSE LET body == GetItem(Head(items), K_body) IN
         IF body.raised \/ PyLen(body.ret).raised
         THEN [raised |-> TRUE, lens |-> <<>>]
         ELSE BodyLengths(Tail(items), Append(acc, PyLen(body.ret).n))

\* no plt.figure() call: the bars land on the figure already current
plt_figure_keep(current) == current
\* bars positioned from 1
plt_bar_from1(current, heights) ==
    current \o [j \in 1..Len(heights) |-> [x |-> j, height |-> heights[j]]]

\* plt.figure(): a new, empty figure becomes the current one
plt_figure(current) == <<>>
\* plt.bar(range(len(post_lengths)), post_lengths) on the current figure
plt_bar(current, heights) ==
    current \o [j \in 1..Len(heights) |-> [x |-> j - 1, height |-> heights[j]]]

\* plot_posts_length: [raised, fig]; fig is the figure savefig writes
plot_posts_length(datav, current) ==
    LET it == Iter(datav)
        post_lengths == BodyLengths(it.items, <<>>) IN
    IF it.raised \/ post_lengths.raised
    THEN [raised |-> TRUE, saved |-> FALSE, fig |-> current]
    ELSE [raised |-> FALSE, saved |-> TRUE,
          fig |-> plt_bar(plt_figure(current), post_lengths.lens)]

\* an increment that moves the user to the end of the dict
Increment_reinsert(counts, uid) ==
    IF \E j \in 1..Len(counts) : PyEq(counts[j].k, uid)
    THEN LET j == CHOOSE i \in 1..Len(counts) : PyEq(counts[i].k, uid) IN
         Append(SelectSeq(counts, LAMBDA c : ~PyEq(c.k, uid)),
                [k |-> counts[j].k, n |-> counts[j].n + 1])
    ELSE Append(counts, [k |-> uid, n |-> 1])

\* user_post_counts[post['userId']] += 1 on an insertion-ordered dict
Increment(counts, uid) ==
    IF \E j \in 1..Len(counts) : PyEq(counts[j].k, uid)
    THEN [j \in 1..Len(counts) |->
            IF PyEq(counts[j].k, uid) THEN [k |-> counts[j].k, n |-> counts[j].n + 1]
            ELSE counts[j]]
    ELSE Append(counts, [k |-> uid, n |-> 1])

RECURSIVE CountLoop(_, _)
CountLoop(items, counts) ==
    IF items = <<>> THEN [raised |-> FALSE, counts |-> counts]
    ELSE LET uid == GetItem(Head(items), K_userId) IN
         IF uid.raised \/ ~Hashable(uid.ret)
         THEN [raised |-> TRUE, counts |-> <<>>]
         ELSE CountLoop(Tail(items), Increment(counts, uid.ret))

CountLine(user_id, count) ==
    <<"U", "s", "e", "r", " ">> \o PyStr(user_id) \o <<" ", "h", "a", "s", " ">> \o IntStr(count) \o <<" ", "p", "o", "s", "t", "s">>

\* count_posts_by_user: [raised, lines]; lines are the lines printed
count_posts_by_user(datav) ==
    LET it == Iter(datav)
        user_post_counts == CountLoop(it.items, <<>>) IN
    IF it.raised \/ user_post_counts.raised
    THEN [raised |-> TRUE, lines |-> <<>>]
    ELSE [raised |-> FALSE,
          lines |-> [j \in 1..Len(user_post_counts.counts) |->
                       CountLine(user_post_counts.counts[j].k,
                                 user_post_counts.counts[j].n)]]

\* a filter that collects the matches newest first
RECURSIVE MatchLoop_rev(_, _, _)
MatchLoop_rev(items, user_id, acc) ==
    IF items = <<>> THEN [raised |-> FALSE, posts |-> acc]
    ELSE LET uid == GetItem(Head(items), K_userId) IN
         IF uid.raised THEN [raised |-> TRUE, posts |-> <<>>]
         ELSE MatchLoop_rev(Tail(items), user_id,
                            IF PyEq(uid.ret, user_id) THEN <<Head(items)>> \o acc
                            ELSE acc)

\* [post for post in self.data if post['userId'] == user_id]
RECURSIVE MatchLoop(_, _, _)
MatchLoop(items, user_id, acc) ==
    IF items = <<>> THEN [raised |-> FALSE, posts |-> acc]
    ELSE LET uid == GetItem(Head(items), K_userId) IN
         IF uid.raised THEN [raised |-> TRUE, posts |-> <<>>]
         ELSE MatchLoop(Tail(items), user_id,
                        IF PyEq(uid.ret, user_id) THEN Append(acc, Head(items))
                        ELSE acc)

FoundLine(n, user_id) ==
    <<"F", "o", "u", "n", "d", " ">> \o IntStr(n) \o <<" ", "p", "o", "s", "t", "s", " ", "b", "y", " ", "u", "s", "e", "r", " ", "'">> \o PyStr(user_id) \o <<"'", ":">>
TitleLine(title) == <<" ", "-", " ">> \o PyStr(title)

\* for post in matched_posts: print(f" - {post['title']}")
RECURSIVE TitleLoop(_, _)
TitleLoop(posts, lines) ==
    IF posts = <<>> THEN [raised |-> FALSE, lines |-> lines]
    ELSE LET title == GetItem(Head(posts), K_title) IN
         IF title.raised THEN [raised |-> TRUE, lines |-> lines]
         ELSE TitleLoop(Tail(posts), Append(lines, TitleLine(title.ret)))

\* search_posts_by_user_id: [raised, lines]
search_posts_by_user_id(datav, user_id) ==
    LET it == Iter(datav)
        matched_posts == MatchLoop(it.items, user_id, <<>>) IN
    IF it.raised \/ matched_posts.raised
    THEN [raised |-> TRUE, lines |-> <<>>]
    ELSE TitleLoop(matched_posts.posts,
                   <<FoundLine(Len(matched_posts.posts), user_id)>>)

(***************************************************************************)
(* PostsDataFetcher and the connection check                               *)
(***************************************************************************)
\* a status check that lets client errors through
raise_for_status_5xx(status) == 500 <= status /\ status < 600

\* response.raise_for_status(): HTTPError for a 4xx or a 5xx status
raise_for_status(status) ==
    \/ 400 <= status /\ status < 500
    \/ 500 <= status /\ status < 600

\* fetch_data: [raised, ret] for the outcome r of requests.get(self.api_url)
fetch_data(r) ==
    IF r.neterr \/ raise_for_status(r.status)
    THEN [raised |-> TRUE, ret |-> JNull]
    ELSE json_loads(r.body)

ConnErrLine(msg) == <<"R", "e", "d", "i", "s", " ", "c", "o", "n", "n", "e", "c", "t", "i", "o", "n", " ", "e", "r", "r", "o", "r", ":", " ">> \o msg

\* check_connection that prints the error and returns
check_connection_noexit(p) ==
    CASE p.error = "none" ->
           [exited |-> FALSE, raised |-> FALSE, lines |-> <<>>]
      [] p.error = "ConnectionError" ->
           [exited |-> FALSE, raised |-> FALSE, lines |-> <<ConnErrLine(p.msg)>>]
      [] OTHER ->
           [exited |-> FALSE, raised |-> TRUE, lines |-> <<>>]

\* check_connection for the outcome of self.db.ping(): only
\* redis.exceptions.ConnectionError is caught; exit(1) follows the print
check_connection(p) ==
    CASE p.error = "none" ->
           [exited |-> FALSE, raised |-> FALSE, lines |-> <<>>]
      [] p.error = "ConnectionError" ->
           [exited |-> TRUE, raised |-> FALSE, lines |-> <<ConnErrLine(p.msg)>>]
      [] OTHER ->
           [exited |-> FALSE, raised |-> TRUE, lines |-> <<>>]

(***************************************************************************)
(* Inputs                                                                  *)
(***************************************************************************)
MaxPosts == 3
MaxCalls == 3

Post1 == MkPost(1, 1, <<"a">>, <<"x", "x">>)
Post2 == MkPost(1, 2, <<"b">>, <<"x">>)
Post3 == MkPost(2, 3, <<"c">>, <<"x", "x", "x", "x">>)
Post5 == MkPost(5, 4, <<"d", "\"">>, <<>>)
PostPool == {Post1, Post2, Post3}
PostCollections ==
    {JArr(a) : a \in UNION {[1..n -> PostPool] : n \in 0..MaxPosts}}
SearchIds == {JInt(1), JInt(2), JInt(7)}

\* values handed to insert_data
SampleValues ==
    {JNull, JBool(FALSE), JBool(TRUE), JInt(0), JInt(-7), JStr(<<>>),
     JStr(<<"a", "\"", "\\", "\n">>), JArr(<<>>), JObj(<<>>),
     JArr(<<JInt(10), JArr(<<>>), JNull>>),
     JObj(<<Pair(<<>>, JObj(<<>>)), Pair(<<"k">>, JStr(<<" ">>))>>),
     JArr(<<Post1, Post5>>)}

\* what a key of the server may hold before the program touches it
StoreContents ==
    {Absent, Stored(<<>>), Stored(<<"x">>), Stored(<<"[">>),
     Stored(<<" ", "[", " ", "]", "\n">>), Stored(json_dumps(JArr(<<Post3>>)))}

\* bodies an HTTP server may answer with
Bodies ==
    {<<>>, <<"<", "h", "t", "m", "l", ">">>, <<"[", "{", "}", ",", "]">>,
     <<" ", "[", " ", "]", "\n">>, <<"n", "u", "l", "l">>, <<"{", "}">>, <<"[", "{", "\"", "b", "o", "d", "y", "\"", ":", " ", "\"", "\"", ",", " ", "\"", "u", "s", "e", "r", "I", "d", "\"", ":", " ", "5", "}", "]">>,
     <<"[", "{", "\"", "b", "o", "d", "y", "\"", ":", " ", "\"", "x", "y", "\"", "}", "]">>,
     json_dumps(JArr(<<Post1, Post2, Post3>>)),
     json_dumps(JArr(<<Post5, Post1, Post5>>))}
Statuses == {200, 204, 300, 404, 500}
Responses ==
    {[neterr |-> FALSE, status |-> st, body |-> b] : st \in Statuses, b \in Bodies}
    \cup {[neterr |-> TRUE, status |-> 0, body |-> <<>>]}
NoResponse == [neterr |-> FALSE, status |-> 0, body |-> <<>>]
NoPing == [error |-> "unset", msg |-> <<>>]

Pings == {[error |-> "none", msg |-> <<>>],
          [error |-> "ConnectionError", msg |-> <<"r", "e", "f", "u", "s", "e", "d">>],
          [error |-> "ResponseError", msg |-> <<"N", "O", "A", "U", "T", "H">>]}

NoFile == [exists |-> FALSE, fig |-> <<>>]
Files == {NoFile, [exists |-> TRUE, fig |-> <<[x |-> 0, height |-> 9]>>]}

(***************************************************************************)
(* State                                                                   *)
(***************************************************************************)
VARIABLES
    pc,           \* the driver's position, or "api" when methods are called freely
    response,     \* what requests.get returned
    ping,         \* what self.db.ping() did in check_connection
    posts_data,   \* module variable posts_data
    db,           \* the Redis server: key -> Absent or Stored(text)
    stored_data,  \* module variable stored_data
    data,         \* PostsDataProcessor.data
    stdout,       \* the lines printed so far
    stderr,       \* the uncaught exceptions reported so far
    file,         \* length_of_posts.png
    curfig,       \* pyplot's current figure
    exit_status,  \* -1 while the process runs
    log,          \* the calls made so far, each with its outcome
    result,       \* the outcome of the last call
    lastPut,      \* key -> the value most recently handed to insert_data
    db0,          \* the server's content when the program started
    file0         \* the file when the program started

vars == <<pc, response, ping, posts_data, db, stored_data, data, stdout, stderr, file,
          curfig, exit_status, log, result, lastPut, db0, file0>>

Res(op, arg, raised, ret, lines, fig) ==
    [op |-> op, arg |-> arg, raised |-> raised, ret |-> ret, lines |-> lines,
     fig |-> fig]
NoResult == Res("none", JNull, FALSE, JNull, <<>>, <<>>)
NoPut == [put |-> FALSE, v |-> JNull]

InitCommon ==
    /\ response = NoResponse
    /\ ping = NoPing
    /\ posts_data = JNull
    /\ stored_data = JNull
    /\ stdout = <<>>
    /\ stderr = <<>>
    /\ curfig = <<>>
    /\ exit_status = -1
    /\ log = <<>>
    /\ result = NoResult
    /\ lastPut = [k \in Keys |-> NoPut]
    /\ db0 = db
    /\ file0 = file

(***************************************************************************)
(* The module-level driver, lines 127-142                                  *)
(***************************************************************************)
Init ==
    /\ pc = "fetch"
    /\ db \in [Keys -> StoreContents]
    /\ file \in Files
    /\ data = JNull
    /\ InitCommon

\* a driver that reads the cache before writing it
NextLine_swapped(line) ==
    CASE line = "fetch" -> "handler"
      [] line = "handler" -> "retrieve"
      [] line = "retrieve" -> "insert"
      [] line = "insert" -> "processor"
      [] line = "processor" -> "plot"
      [] line = "plot" -> "count"
      [] line = "count" -> "search"
      [] line = "search" -> "done"

\* the statement after a statement that completed
NextLine(line) ==
    CASE line = "fetch" -> "handler"
      [] line = "handler" -> "insert"
      [] line = "insert" -> "retrieve"
      [] line = "retrieve" -> "processor"
      [] line = "processor" -> "plot"
      [] line = "plot" -> "count"
      [] line = "count" -> "search"
      [] line = "search" -> "done"

\* a statement ends: normally, by an uncaught exception, or by exit(1)
Finish(r, exited) ==
    /\ result' = r
    /\ log' = Append(log, r)
    /\ stdout' = stdout \o r.lines
    /\ IF r.raised
       THEN /\ pc' = "aborted"
            /\ exit_status' = 1
            /\ stderr' = Append(stderr, r.op)
       ELSE IF exited
       THEN /\ pc' = "exited"
            /\ exit_status' = 1
            /\ stderr' = stderr
       ELSE /\ pc' = NextLine(pc)
            /\ exit_status' = IF NextLine(pc) = "done" THEN 0 ELSE exit_status
            /\ stderr' = stderr

\* posts_data = fetcher.fetch_data()
Fetch ==
    /\ pc = "fetch"
    /\ \E r \in Responses :
         LET out == fetch_data(r) IN
         /\ response' = r
         /\ posts_data' = IF out.raised THEN posts_data ELSE out.ret
         /\ Finish(Res("fetch_data", JNull, out.raised, out.ret, <<>>, <<>>), FALSE)
    /\ UNCHANGED <<ping, db, stored_data, data, file, curfig, lastPut, db0, file0>>

\* redis_handler = RedisDataHandler()
Handler ==
    /\ pc = "handler"
    /\ \E p \in Pings :
         LET out == check_connection(p) IN
         /\ ping' = p
         /\ Finish(Res("RedisDataHandler", JNull, out.raised, JNull, out.lines, <<>>),
                   out.exited)
    /\ UNCHANGED <<response, posts_data, db, stored_data, data, file, curfig,
                   lastPut, db0, file0>>

\* redis_handler.insert_data(REDIS_KEY, posts_data)
Insert ==
    /\ pc = "insert"
    /\ db' = insert_data(db, REDIS_KEY, posts_data)
    /\ lastPut' = [lastPut EXCEPT ![REDIS_KEY] = [put |-> TRUE, v |-> posts_data]]
    /\ Finish(Res("insert_data", JStr(REDIS_KEY), FALSE, JNull, <<>>, <<>>), FALSE)
    /\ UNCHANGED <<ping, response, posts_data, stored_data, data, file, curfig, db0, file0>>

\* stored_data = redis_handler.retrieve_data(REDIS_KEY)
Retrieve ==
    /\ pc = "retrieve"
    /\ LET out == retrieve_data(db, REDIS_KEY) IN
       /\ stored_data' = IF out.raised THEN stored_data ELSE out.ret
       /\ Finish(Res("retrieve_data", JStr(REDIS_KEY), out.raised, out.ret, <<>>, <<>>),
                 FALSE)
    /\ UNCHANGED <<ping, response, posts_data, db, data, file, curfig, lastPut, db0, file0>>

\* processor = PostsDataProcessor(stored_data)
Processor ==
    /\ pc = "processor"
    /\ data' = stored_data
    /\ Finish(Res("PostsDataProcessor", JNull, FALSE, JNull, <<>>, <<>>), FALSE)
    /\ UNCHANGED <<ping, response, posts_data, db, stored_data, file, curfig, lastPut,
                   db0, file0>>

\* the effect of one plot_posts_length call on pyplot and on the file
PlotEffect(out) ==
    /\ curfig' = out.fig
    /\ file' = IF out.saved THEN [exists |-> TRUE, fig |-> out.fig] ELSE file
PlotRes(out) ==
    Res("plot_posts_length", JNull, out.raised, JNull, <<>>,
        IF out.saved THEN out.fig ELSE <<>>)

\* processor.plot_posts_length()
Plot ==
    /\ pc = "plot"
    /\ LET out == plot_posts_length(data, curfig) IN
       /\ PlotEffect(out)
       /\ Finish(PlotRes(out), FALSE)
    /\ UNCHANGED <<ping, response, posts_data, db, stored_data, data, lastPut, db0, file0>>

\* processor.count_posts_by_user()
Count ==
    /\ pc = "count"
    /\ LET out == count_posts_by_user(data) IN
       Finish(Res("count_posts_by_user", JNull, out.raised, JNull, out.lines, <<>>),
              FALSE)
    /\ UNCHANGED <<ping, response, posts_data, db, stored_data, data, file, curfig,
                   lastPut, db0, file0>>

\* processor.search_posts_by_user_id(5)
Search ==
    /\ pc = "search"
    /\ LET out == search_posts_by_user_id(data, JInt(5)) IN
       Finish(Res("search_posts_by_user_id", JInt(5), out.raised, JNull, out.lines,
                  <<>>), FALSE)
    /\ UNCHANGED <<ping, response, posts_data, db, stored_data, data, file, curfig,
                   lastPut, db0, file0>>

Next ==
    \/ Fetch
    \/ Handler
    \/ Insert
    \/ Retrieve
    \/ Processor
    \/ Plot
    \/ Count
    \/ Search

Spec == Init /\ [][Next]_vars

(***************************************************************************)
(* A connected RedisDataHandler whose methods are called in any order      *)
(***************************************************************************)
InitStore ==
    /\ pc = "api"
    /\ db \in [Keys -> StoreContents]
    /\ file = NoFile
    /\ data = JNull
    /\ InitCommon

Put ==
    \E key \in Keys, json_data \in SampleValues :
      /\ db' = insert_data(db, key, json_data)
      /\ lastPut' = [lastPut EXCEPT ![key] = [put |-> TRUE, v |-> json_data]]
      /\ result' = Res("insert_data", JStr(key), FALSE, JNull, <<>>, <<>>)
      /\ UNCHANGED <<ping, pc, response, posts_data, stored_data, data, stdout, stderr,
                     file, curfig, exit_status, log, db0, file0>>

Get ==
    \E key \in Keys :
      LET out == retrieve_data(db, key) IN
      /\ result' = Res("retrieve_data", JStr(key), out.raised, out.ret, <<>>, <<>>)
      /\ UNCHANGED <<ping, pc, response, posts_data, db, stored_data, data, stdout,
                     stderr, file, curfig, exit_status, log, lastPut, db0, file0>>

NextStore ==
    \/ Put
    \/ Get

SpecStore == InitStore /\ [][NextStore]_vars

(***************************************************************************)
(* A PostsDataProcessor holding a post collection, its reports called in   *)
(* any order                                                               *)
(***************************************************************************)
InitProc ==
    /\ pc = "api"
    /\ db = [k \in Keys |-> Absent]
    /\ file \in Files
    /\ data \in PostCollections
    /\ InitCommon

Called(r) ==
    /\ Len(log) < MaxCalls
    /\ result' = r
    /\ log' = Append(log, r)
    /\ stdout' = stdout \o r.lines

CallPlot ==
    /\ LET out == plot_posts_length(data, curfig) IN
       /\ PlotEffect(out)
       /\ Called(PlotRes(out))
    /\ UNCHANGED <<ping, pc, response, posts_data, db, stored_data, data, stderr,
                   exit_status, lastPut, db0, file0>>

CallCount ==
    /\ LET out == count_posts_by_user(data) IN
       Called(Res("count_posts_by_user", JNull, out.raised, JNull, out.lines, <<>>))
    /\ UNCHANGED <<ping, pc, response, posts_data, db, stored_data, data, stderr, file,
                   curfig, exit_status, lastPut, db0, file0>>

CallSearch ==
    /\ \E user_id \in SearchIds :
         LET out == search_posts_by_user_id(data, user_id) IN
         Called(Res("search_posts_by_user_id", user_id, out.raised, JNull, out.lines,
                    <<>>))
    /\ UNCHANGED <<ping, pc, response, posts_data, db, stored_data, data, stderr, file,
                   curfig, exit_status, lastPut, db0, file0>>

NextProc ==
    \/ CallPlot
    \/ CallCount
    \/ CallSearch

SpecProc == InitProc /\ [][NextProc]_vars

(***************************************************************************)
(* Properties                                                              *)
(***************************************************************************)
IsGet == result.op = "retrieve_data"
GetKey == result.arg.s
NoValue == [raised |-> FALSE, ret |-> JNull]
Outcome(r) == [raised |-> r.raised, ret |-> r.ret]
EmptyCollections == {JArr(<<>>), JObj(<<>>)}

\* C1: a get of a key that was put returns exactly the value of the most
\* recent put to that key, whatever the key held before and whatever the
\* value is (null, false, 0, "", [] and {} included).
C1_GetReturnsLastPut ==
    \A k \in Keys :
      (IsGet /\ GetKey = k /\ lastPut[k].put)
        => Outcome(result) = [raised |-> FALSE, ret |-> lastPut[k].v]

\* an empty array was put over a stored text and read back
C1_Witness ==
    /\ IsGet
    /\ lastPut[GetKey] = [put |-> TRUE, v |-> JArr(<<>>)]
    /\ db0[GetKey].present
    /\ db0[GetKey].text # db[GetKey].text
    /\ result.ret = JArr(<<>>)

\* C2: once the ping of the constructor failed, the process has ended with
\* a non-zero status and an error report, the log holds no insert_data, no
\* retrieve_data and no report, and the store and the chart are untouched.
PingFailed == ping.error \notin {"unset", "none"}
StoreOrReportOps ==
    {"insert_data", "retrieve_data", "PostsDataProcessor", "plot_posts_length",
     "count_posts_by_user", "search_posts_by_user_id"}
C2_PingFailureExits ==
    PingFailed =>
      /\ pc \in {"exited", "aborted"}
      /\ exit_status > 0
      /\ stdout = <<ConnErrLine(ping.msg)>> \/ (stdout = <<>> /\ stderr # <<>>)
      /\ \A i \in 1..Len(log) : log[i].op \notin StoreOrReportOps
      /\ db = db0
      /\ file = file0

\* the connection was refused: the error was printed and exit(1) ran
C2_Witness ==
    /\ ping.error = "ConnectionError"
    /\ pc = "exited"
    /\ exit_status = 1
    /\ stdout # <<>>

\* C3: get returns the no-value result when the key is absent, that result
\* differs from what get returns after an empty collection was put, and
\* whenever a text is stored get's outcome is the deserialization of it.
C3_GetContract ==
    IsGet =>
      /\ ~db[GetKey].present => Outcome(result) = NoValue
      /\ \A e \in EmptyCollections :
           retrieve_data(insert_data(db, GetKey, e), GetKey) # NoValue
      /\ db[GetKey].present => Outcome(result) = json_loads(db[GetKey].text)

\* C4: a get of a key whose stored text is not valid JSON (the empty text
\* included) raises; it returns neither a value nor the no-value result.
C4_CorruptTextRaises ==
    (IsGet /\ db[GetKey].present /\ json_loads(db[GetKey].text).raised)
      => result.raised

\* the held collection, seen by position
NPosts == Len(data.a)
UidAt(i) == GetItem(data.a[i], K_userId).ret
TitleAt(i) == GetItem(data.a[i], K_title).ret
BodyAt(i) == GetItem(data.a[i], K_body).ret
UidSet == {UidAt(i) : i \in 1..NPosts}
IdxOf(u) == {i \in 1..NPosts : UidAt(i) = u}
FirstIdx(u) == CHOOSE i \in IdxOf(u) : \A j \in IdxOf(u) : i <= j
\* the k-th smallest element of a set of indices
Kth(S, k) == CHOOSE i \in S : Cardinality({j \in S : j < i}) = k - 1

\* C5: count_posts_by_user prints one line per distinct userId, in the order
\* in which the userIds first occur in the collection, each with the number
\* of posts of that userId (so the counts add up to the collection length).
C5_CountByUser ==
    result.op = "count_posts_by_user" =>
      /\ ~result.raised
      /\ Len(result.lines) = Cardinality(UidSet)
      /\ \A u \in UidSet :
           LET rank == Cardinality({w \in UidSet : FirstIdx(w) < FirstIdx(u)}) + 1 IN
           result.lines[rank] = CountLine(u, Cardinality(IdxOf(u)))

\* user 1, user 2, user 1 again: two lines, user 1 first with count 2
C5_Witness ==
    /\ result.op = "count_posts_by_user"
    /\ data = JArr(<<Post1, Post3, Post2>>)
    /\ Len(result.lines) = 2
    /\ result.lines[1] = CountLine(JInt(1), 2)

\* C6: search_posts_by_user_id(uid) prints a header with the number of posts
\* whose userId is uid, then the titles of exactly those posts in collection
\* order; for a uid that no post has, the header says 0 and nothing follows.
C6_SearchByUser ==
    result.op = "search_posts_by_user_id" =>
      LET S == IdxOf(result.arg) IN
      /\ ~result.raised
      /\ Len(result.lines) = 1 + Cardinality(S)
      /\ result.lines[1] = FoundLine(Cardinality(S), result.arg)
      /\ \A k \in 1..Cardinality(S) :
           result.lines[k + 1] = TitleLine(TitleAt(Kth(S, k)))

\* user 1 has the first and the last of three posts
C6_Witness ==
    /\ result.op = "search_posts_by_user_id"
    /\ result.arg = JInt(1)
    /\ data = JArr(<<Post1, Post3, Post2>>)
    /\ Len(result.lines) = 3

\* C7: plot_posts_length leaves in the file a chart of exactly n bars, the
\* bar of position i (from 0) as high as the body of the i-th post is long,
\* whatever the file held before.
C7_PlotLengths ==
    result.op = "plot_posts_length" =>
      /\ ~result.raised
      /\ file.exists
      /\ file.fig = result.fig
      /\ Len(file.fig) = NPosts
      /\ \A i \in 1..NPosts :
           file.fig[i] = [x |-> i - 1, height |-> Len(BodyAt(i).s)]

\* three posts plotted over an existing chart
C7_Witness ==
    /\ result.op = "plot_posts_length"
    /\ NPosts = 3
    /\ file0.exists
    /\ file # file0

\* C8: the calls of a run are a prefix of fetch, connect, put, get, construct
\* the Processor, plot, count, search; only the last one may have failed; put
\* and get use REDIS_KEY; put stores the fetched value; the value got and
\* handed to the Processor is the fetched value.
ProgramOrder ==
    <<"fetch_data", "RedisDataHandler", "insert_data", "retrieve_data",
      "PostsDataProcessor", "plot_posts_length", "count_posts_by_user",
      "search_posts_by_user_id">>
C8_FixedOrder ==
    /\ Len(log) <= Len(ProgramOrder)
    /\ \A i \in 1..Len(log) :
         /\ log[i].op = ProgramOrder[i]
         /\ i < Len(log) => ~log[i].raised
         /\ i \in {3, 4} => log[i].arg = JStr(REDIS_KEY)
    /\ Len(log) >= 3 => lastPut[REDIS_KEY] = [put |-> TRUE, v |-> log[1].ret]
    /\ (Len(log) >= 4 /\ ~log[4].raised) => log[4].ret = log[1].ret
    /\ (Len(log) >= 5 /\ ~log[5].raised) => data = log[1].ret

\* a complete run over a fetched collection of three posts
C8_Witness ==
    /\ pc = "done"
    /\ Len(log) = 8
    /\ data = JArr(<<Post1, Post2, Post3>>)
    /\ exit_status = 0

\* what a failed fetch leaves behind
Fetched == Len(log) >= 1
OneRequest == Cardinality({i \in 1..Len(log) : log[i].op = "fetch_data"}) <= 1
FetchAborted ==
    /\ pc = "aborted"
    /\ exit_status > 0
    /\ Len(log) = 1
    /\ log[1].raised
    /\ db = db0
    /\ file = file0
    /\ stdout = <<>>
BadBody == json_loads(response.body).raised

C10_ReportsArePureReads ==
    [][/\ data' = data
       /\ db' = db
       /\ \A i \in 1..Len(log) :
            (log[i].op = result'.op /\ log[i].arg = result'.arg) => log[i] = result'
      ]_vars

\* plot, then another report, then plot again over a non-empty collection
C10_Witness ==
    /\ Len(log) = 3
    /\ log[1].op = "plot_posts_length"
    /\ log[2].op # "plot_posts_length"
    /\ log[3].op = "plot_posts_length"
    /\ NPosts > 0

====
